---- MODULE Spec2Model ----
(***************************************************************************)
(* RideSplit Match - the matching session of the map page.                  *)
(*                                                                         *)
(* The model follows the MapPage component that keeps one Destination       *)
(* document per online traveler (Destination/{uid}).  React state, refs,    *)
(* the browser's geolocation watches, the store listeners and every         *)
(* asynchronous continuation (the code after an await) are explicit.        *)
(*                                                                         *)
(* A closure created in one render keeps the state of that render: the      *)
(* values a long-lived callback reads (user, destinationCoords,             *)
(* myLocation) are recorded in the watch / listener / call record at the    *)
(* moment the callback is created.                                          *)
(*                                                                         *)
(* Coordinates are points on the equator, given by their position in        *)
(* meters along it; there the great-circle distance is the absolute         *)
(* difference of the positions.                                             *)
(***************************************************************************)
EXTENDS Integers, Sequences, FiniteSets, TLC

\* ------------------------------------------------------------------ bounds
\* clock readings the model distinguishes after the first one
MaxTicks == 1
\* cohort handlers that may be awaiting getUserProfiles at the same time
MaxHandlers == 1
\* watch callbacks that may be awaiting updateDestinationLocation at once
MaxPublishes == 1
\* goOnline and goOffline calls that may be awaiting the store at once
MaxCalls == 2
\* documents the trips collection may grow to
MaxTrips == 3
\* calls of a debounced function the model follows
MaxDebounceCalls == 3
\* steps the clock of the debounced function advances
MaxDebounceTicks == 6

\* ------------------------------------------------------- program constants
MatchThresholdMeters == 500
RadiusMeters == 2000
PublishMinMeters == 10
PublishMinMs == 2000
Infinity == 1000000000
DebounceWaitMs == 400

\* ------------------------------------------------------------ value sets
\* an optional value is <<>> (null) or <<v>>
Null == <<>>
Some(v) == <<v>>
NoUser == "nobody"
NoMsg == "none"
Me == "me"
Others == <<"a", "b">>
MyGender == "male"
OtherGender == "female"
\* milliseconds between two clock readings; Date.now() of the first reading
TickMs == 1000
StartMs == 5000

\* positions the local device reports, destinations the user can pick,
\* and the destinations / positions found in other travelers' documents
LocPoints == {0, 2500}
DestPoints == {0, 600}
OtherDestPoints == {400, 1000}
\* uids that have a Profile document
ProfileUids == {"me", "a", "b"}

DestinationNameOf(c) == IF c = 0 THEN "D0" ELSE "D600"

\* --------------------------------------------------------------- geo kernel
haversineDistance(coord1, coord2) ==
  IF coord1 >= coord2 THEN coord1 - coord2 ELSE coord2 - coord1

\* the same function for coordinates {lat, lng} given in degrees on the grid
\* of latitudes -60, 0, 60 and longitudes -120, -60, 0, 60, 120, where every
\* term of the formula is a multiple of 1/16 and the arithmetic is exact
GridCoords ==
  {[lat |-> la, lng |-> ln] : la \in {-60, 0, 60},
                             ln \in {-120, -60, 0, 60, 120}}

\* 4 * Math.sin(x) * Math.sin(x) for x = toRadians(delta) / 2
SinSqHalf(delta) ==
  CASE delta \in {0} -> 0
    [] delta \in {-60, 60} -> 1
    [] delta \in {-120, 120} -> 3
    [] delta \in {-180, 180} -> 4
    [] delta \in {-240, 240} -> 3

\* 2 * Math.cos(toRadians(lat))
Cos2(lat) == IF lat = 0 THEN 2 ELSE 1

\* EARTH_RADIUS_METERS * 2 * Math.atan2(Math.sqrt(a), Math.sqrt(1 - a)) for
\* a = 0/16, 1/16, ... 16/16, to the meter
ArcMeters ==
  <<0, 3219652, 4604540, 5706280, 6671696, 7558552, 8397717, 9209080,
    10007543, 10806007, 11617369, 12456535, 13343391, 14308806, 15410547,
    16795435, 20015087>>

\* variant: the first latitude is not subtracted
haversineDistanceOfNoOrigin(coord1, coord2) ==
  LET deltaLat == coord2.lat
      deltaLng == coord2.lng - coord1.lng
      a == 4 * SinSqHalf(deltaLat)
             + Cos2(coord1.lat) * Cos2(coord2.lat) * SinSqHalf(deltaLng)
  IN ArcMeters[a + 1]

\* variant: the latitudes are added instead of subtracted
haversineDistanceOfSum(coord1, coord2) ==
  LET deltaLat == coord2.lat + coord1.lat
      deltaLng == coord2.lng - coord1.lng
      a == 4 * SinSqHalf(deltaLat)
             + Cos2(coord1.lat) * Cos2(coord2.lat) * SinSqHalf(deltaLng)
  IN ArcMeters[a + 1]

haversineDistanceOf(coord1, coord2) ==
  LET deltaLat == coord2.lat - coord1.lat
      deltaLng == coord2.lng - coord1.lng
      a == 4 * SinSqHalf(deltaLat)
             + Cos2(coord1.lat) * Cos2(coord2.lat) * SinSqHalf(deltaLng)
  IN ArcMeters[a + 1]

\* variant: the threshold itself does not match
destinationsMatchStrict(dest1, dest2) ==
  haversineDistance(dest1, dest2) < MatchThresholdMeters

\* variant: the destinations are compared against the 2 km radius
destinationsMatchWide(dest1, dest2) ==
  haversineDistance(dest1, dest2) <= RadiusMeters

destinationsMatch(dest1, dest2) ==
  haversineDistance(dest1, dest2) <= MatchThresholdMeters

\* formatDistance for a distance given in tenths of a meter; the string is
\* kept as its parts: the digits before the point, the digits after it and
\* the unit.  Math.round rounds a half up; toFixed(1) rounds to the nearest
\* tenth of a kilometer
MathRound(tenths) == (tenths + 5) \div 10

formatDistance(tenths) ==
  IF tenths >= 10000
  THEN LET toFixed1 == (tenths + 500) \div 1000
       IN [whole |-> toFixed1 \div 10, frac |-> <<toFixed1 % 10>>,
           unit |-> "km"]
  ELSE [whole |-> MathRound(tenths), frac |-> <<>>, unit |-> "m"]

\* ------------------------------------------------------------------- state
VARIABLES
  mounted,            \* the MapPage component is mounted
  authPc,             \* position of the auth effect's async callback
  locPc,              \* the initial getCurrentPosition request
  user, userProfile,  \* React state: auth
  myLocation, locationError,
  destinationName, destinationCoords,
  isOnline, isTogglingOnline,
  matchedUsers, isLoadingMatches,
  watchIdRef, destinationsUnsubscribeRef,
  lastLocationRef, lastUpdateTimeRef,
  watches,            \* geolocation watches registered with the browser
  listeners,          \* open Destination listeners (subscribeToDestinations)
  destinationDoc,     \* Destination/{me} in the store
  writes,             \* store writes awaited by goOnline (create),
                      \* goOffline (delete) and the watch callback (update)
  signOutPc,          \* position of handleSignOut
  handlers,           \* cohort handlers awaiting getUserProfiles
  now,                \* Date.now()
  alertMsg,           \* last alert() shown
  lastEvent,          \* history: the snapshot the last operation handled
  lastCall,           \* history: the goOnline/goOffline call that just settled
  lastOp,             \* history: the last operation that ran
  trips,              \* the trips collection of the store (trip revision)
  tripCalls,          \* per tab: position of its createOrUpdateTrip /
                      \* deactivateUserTrips call
  geo,                \* a call of a geo kernel function: the function, its
                      \* arguments and, once it returned, its result
  debounced           \* a function returned by debounce: its timeoutId, the
                      \* pending timers, the clock, and the calls and runs
                      \* so far

vars == <<mounted, authPc, locPc, user, userProfile, myLocation,
          locationError, destinationName, destinationCoords, isOnline,
          isTogglingOnline, matchedUsers, isLoadingMatches, watchIdRef,
          destinationsUnsubscribeRef, lastLocationRef, lastUpdateTimeRef,
          watches, listeners, destinationDoc, writes, signOutPc, handlers,
          now, alertMsg, lastEvent, lastCall, lastOp, trips, tripCalls,
          geo, debounced>>

authVars == <<authPc, user, userProfile>>
locVars == <<locPc, myLocation, locationError>>
destVars == <<destinationName, destinationCoords>>
matchVars == <<matchedUsers, isLoadingMatches>>
throttleVars == <<lastLocationRef, lastUpdateTimeRef>>
watchVars == <<watchIdRef, watches>>
subVars == <<destinationsUnsubscribeRef, listeners>>
callVars == <<writes, signOutPc>>
tripVars == <<trips, tripCalls>>
utilVars == <<geo, debounced>>
\* everything but the trips collection and the calls on it
pageVars == <<mounted, authVars, locVars, destVars, isOnline,
              isTogglingOnline, matchVars, watchVars, subVars, throttleVars,
              destinationDoc, callVars, handlers, now, alertMsg, lastEvent,
              lastCall, lastOp>>

\* the tabs (or devices) on which the traveler is signed in
Tabs == {"t1", "t2"}
\* no createOrUpdateTrip / deactivateUserTrips call in progress in a tab
TabIdle == [pc |-> "idle", found |-> {}]
\* no geo kernel call under examination
GeoIdle == [fn |-> "none", args |-> <<>>, result |-> Null]
\* a debounced function that was never called: let timeoutId = null
DebounceIdle ==
  [timeoutId |-> Null, timers |-> {}, clock |-> 0, calls |-> <<>>,
   runs |-> <<>>]

\* a Destination document (models.ts Destination, the fields matching reads)
DestinationRec(uid, dest, cur) ==
  [uid |-> uid, gender |-> MyGender, destinationName |-> DestinationNameOf(dest),
   destinationLat |-> dest, currentLat |-> cur]

\* the document of a traveler who registered with gender g
WithGender(doc, g) == [doc EXCEPT !.gender = g]

\* the documents the store may hold for the other travelers: traveler a is
\* at 100 m and may head to either destination, traveler b is at 1900 m
OtherDocs(u) ==
  IF u = Others[1]
  THEN {DestinationRec(u, d, 100) : d \in OtherDestPoints}
  ELSE {DestinationRec(u, 400, 1900)}

\* the other travelers' documents of one snapshot, in any delivery order
OtherSnapshots ==
  {<<>>}
  \cup {<<x, y>> : x \in OtherDocs(Others[1]), y \in OtherDocs(Others[2])}
  \cup {<<y, x>> : x \in OtherDocs(Others[1]), y \in OtherDocs(Others[2])}

NoEvent == [l |-> Null, destinations |-> <<>>]
NoCall == [caller |-> "none", from |-> "none"]

\* a document left in the store by an earlier visit of the page
StaleDoc == DestinationRec(Me, 0, 0)

PageInit ==
  /\ mounted = TRUE
  /\ authPc = "start"
  /\ locPc = "pending"
  /\ user = NoUser /\ userProfile = Null
  /\ myLocation = Null /\ locationError = NoMsg
  /\ destinationName = "" /\ destinationCoords = Null
  /\ isOnline = FALSE /\ isTogglingOnline = FALSE
  /\ matchedUsers = <<>> /\ isLoadingMatches = FALSE
  /\ watchIdRef = Null /\ destinationsUnsubscribeRef = Null
  /\ lastLocationRef = Null /\ lastUpdateTimeRef = 0
  /\ watches = {} /\ listeners = {}
  /\ destinationDoc \in {Null, Some(StaleDoc)}
  /\ writes = <<>>
  /\ signOutPc = "idle"
  /\ handlers = {}
  /\ now = StartMs
  /\ alertMsg = NoMsg
  /\ lastEvent = NoEvent
  /\ lastCall = NoCall
  /\ lastOp = "init"
  /\ trips = {}
  /\ tripCalls = [t \in Tabs |-> TabIdle]

Init == PageInit /\ geo = GeoIdle /\ debounced = DebounceIdle

\* alert(msg): the message is shown to the user
alert(msg) == msg

\* history of the last operation: its name, the alert it raised (alert() is
\* modal, the next operation runs after it was dismissed), for a processed
\* cohort snapshot the listener and the documents delivered, and for a
\* settled goOnline/goOffline who called it and in which status; an
\* operation of this page does not touch the trips collection
History(op, msg, event, call) ==
  /\ lastOp' = op
  /\ alertMsg' = msg
  /\ lastEvent' = event
  /\ lastCall' = call
  /\ UNCHANGED <<tripVars, utilVars>>
Did(op) == History(op, NoMsg, NoEvent, NoCall)
DidAlert(op, msg) == History(op, msg, NoEvent, NoCall)
DidEvent(l, destinations) ==
  History("cohortHandled", NoMsg,
          [l |-> Some(l), destinations |-> destinations], NoCall)
DidCall(op, msg, call) ==
  History(op, msg, NoEvent,
          [caller |-> call.caller, from |-> call.from])

\* a state setter of an unmounted component does nothing
SetState(old, new) == IF mounted THEN new ELSE old

\* variant: the listener is not closed
unsubscribeNothing(ls, ref) == ls

\* if (watchIdRef.current !== null) navigator.geolocation.clearWatch(...)
clearWatch(ws, ref) == IF ref # Null THEN ws \ {ref[1]} ELSE ws
\* if (destinationsUnsubscribeRef.current) destinationsUnsubscribeRef.current()
unsubscribe(ls, ref) == IF ref # Null THEN ls \ {ref[1]} ELSE ls

\* the cleanup effect that runs when the component unmounts
CleanupOnUnmount ==
  /\ mounted' = FALSE
  /\ watches' = clearWatch(watches, watchIdRef)
  /\ listeners' = unsubscribe(listeners, destinationsUnsubscribeRef)
  /\ UNCHANGED <<watchIdRef, destinationsUnsubscribeRef>>

\* ------------------------------------------------------------- auth effect
\* onAuthChange delivers the signed-in user
AuthChanged ==
  /\ mounted /\ authPc = "start"
  /\ user' = Me
  /\ authPc' = "profile"
  /\ Did("AuthChanged")
  /\ UNCHANGED <<mounted, locVars, userProfile, destVars, isOnline,
                 isTogglingOnline, matchVars, watchVars, subVars,
                 throttleVars, destinationDoc, callVars, handlers, now>>

\* getUserProfile resolved with a profile
ProfileLoaded ==
  /\ authPc = "profile"
  /\ userProfile' = SetState(userProfile, Some([uid |-> Me, gender |-> MyGender]))
  /\ authPc' = "dest"
  /\ Did("ProfileLoaded")
  /\ UNCHANGED <<mounted, locVars, user, destVars, isOnline,
                 isTogglingOnline, matchVars, watchVars, subVars,
                 throttleVars, destinationDoc, callVars, handlers, now>>

\* the watch registered by startLocationWatchForRestore and the listener
\* registered by subscribeToMatchingDestinationsForRestore: both are called
\* from the effect of the first render, whose user and myLocation are null
RestoreWatch == [kind |-> "restore", user |-> NoUser]
RestoreListener(profile, destCoords) ==
  [kind |-> "restore", user |-> NoUser, gender |-> profile.gender,
   dest |-> destCoords, loc |-> Null]

\* getDestination resolved: restore the session if a document exists
DestinationLoaded ==
  /\ authPc = "dest"
  /\ authPc' = "done"
  /\ Did("DestinationLoaded")
  /\ IF destinationDoc = Null
     THEN UNCHANGED <<destVars, isOnline, isLoadingMatches, watchVars, subVars>>
     ELSE LET existing == destinationDoc[1]
              l == RestoreListener([uid |-> Me, gender |-> MyGender],
                                   existing.destinationLat)
          IN /\ destinationName' = SetState(destinationName, existing.destinationName)
             /\ destinationCoords' = SetState(destinationCoords, Some(existing.destinationLat))
             /\ isOnline' = SetState(isOnline, TRUE)
             /\ watches' = clearWatch(watches, watchIdRef) \cup {RestoreWatch}
             /\ watchIdRef' = Some(RestoreWatch)
             /\ isLoadingMatches' = SetState(isLoadingMatches, TRUE)
             /\ listeners' = unsubscribe(listeners, destinationsUnsubscribeRef) \cup {l}
             /\ destinationsUnsubscribeRef' = Some(l)
  /\ UNCHANGED <<mounted, locVars, user, userProfile, isTogglingOnline,
                 matchedUsers, throttleVars, destinationDoc, callVars,
                 handlers, now>>

\* ------------------------------------------------------- initial location
InitialLocationOf(points) ==
  /\ locPc = "pending"
  /\ locPc' = "done"
  /\ \E p \in points :
       /\ myLocation' = SetState(myLocation, Some(p))
       /\ lastLocationRef' = Some(p)
  /\ Did("InitialLocation")
  /\ UNCHANGED <<mounted, authVars, locationError, destVars, isOnline,
                 isTogglingOnline, matchVars, watchVars, subVars,
                 lastUpdateTimeRef, destinationDoc, callVars, handlers, now>>

InitialLocationError ==
  /\ locPc = "pending"
  /\ locPc' = "done"
  /\ locationError' = SetState(locationError, "Location information unavailable.")
  /\ Did("InitialLocationError")
  /\ UNCHANGED <<mounted, authVars, myLocation, destVars, isOnline,
                 isTogglingOnline, matchVars, watchVars, subVars,
                 throttleVars, destinationDoc, callVars, handlers, now>>

\* --------------------------------------------------- destination selection
\* DestinationSearch is rendered with disabled={isOnline}
handleDestinationSelect ==
  /\ mounted /\ ~isOnline
  /\ \E c \in DestPoints :
       /\ destinationName' = DestinationNameOf(c)
       /\ destinationCoords' = Some(c)
  /\ Did("handleDestinationSelect")
  /\ UNCHANGED <<mounted, authVars, locVars, isOnline, isTogglingOnline,
                 matchVars, watchVars, subVars, throttleVars,
                 destinationDoc, callVars, handlers, now>>


\* ------------------------------------------------------------- store writes
\* the writes this client has sent and that have not settled yet, oldest
\* first; the store client settles them in the order they were issued
PendingCalls(op) ==
  {writes[i].call : i \in {j \in DOMAIN writes : writes[j].op = op}}
CountPending(op) == Cardinality({j \in DOMAIN writes : writes[j].op = op})
CountCalls == CountPending("create") + CountPending("delete")
HeadIs(op) == writes # <<>> /\ Head(writes).op = op

\* the state of the session's state machine
Status ==
  IF PendingCalls("create") # {} THEN "GOING_ONLINE"
  ELSE IF PendingCalls("delete") # {} THEN "GOING_OFFLINE"
  ELSE IF authPc # "done" THEN "STARTING"
  ELSE IF isOnline THEN "ONLINE" ELSE "OFFLINE"

\* the status as the page shows it: while the auth effect is still running
\* the session counts as ONLINE or OFFLINE by its online flag
Phase ==
  IF Status = "STARTING"
  THEN (IF isOnline THEN "ONLINE" ELSE "OFFLINE")
  ELSE Status

\* ------------------------------------------------------------ online toggle
\* OnlineToggle: disabled={disabled || isLoading}, with MapPage passing
\* disabled={!myLocation || (!isOnline && !destinationCoords)}
ToggleDisabled ==
  \/ myLocation = Null
  \/ (~isOnline /\ destinationCoords = Null)
  \/ isTogglingOnline

\* the watch and the listener a goOnline call registers; their callbacks
\* read user, destinationCoords and myLocation of the render that was
\* current when the toggle was clicked (kept in the call record c)
OnlineWatch(c) == [kind |-> "online", user |-> c.user]
OnlineListener(c) ==
  [kind |-> "online", user |-> c.user, gender |-> c.gender,
   dest |-> c.dest, loc |-> Some(c.loc)]

\* goOnline up to its await: the guard, the two flags, createDestination sent
goOnline ==
  /\ user # NoUser /\ userProfile # Null
  /\ destinationCoords # Null /\ myLocation # Null
  /\ CountCalls < MaxCalls
  /\ isTogglingOnline' = TRUE
  /\ isLoadingMatches' = TRUE
  /\ writes' = Append(writes,
       [op |-> "create",
        call |-> [user |-> user, gender |-> userProfile[1].gender,
                  destName |-> destinationName, dest |-> destinationCoords[1],
                  loc |-> myLocation[1], caller |-> "toggle",
                  from |-> Status]])
  /\ UNCHANGED <<mounted, authVars, locVars, destVars, isOnline,
                 matchedUsers, watchVars, subVars, throttleVars,
                 destinationDoc, signOutPc, handlers, now>>

\* createDestination(doc): the document Destination/{uid} is (over)written
createDestination(c) ==
  Some([uid |-> c.user, gender |-> c.gender, destinationName |-> c.destName,
        destinationLat |-> c.dest, currentLat |-> c.loc])

\* createDestination succeeded: the document is written, then
\* startLocationWatch, subscribeToMatchingDestinations, setIsOnline(true)
goOnlineCreated ==
  /\ HeadIs("create")
  /\ LET c == Head(writes).call
     IN /\ writes' = Tail(writes)
        /\ destinationDoc' = createDestination(c)
        /\ watches' = clearWatch(watches, watchIdRef) \cup {OnlineWatch(c)}
        /\ watchIdRef' = Some(OnlineWatch(c))
        /\ listeners' = unsubscribe(listeners, destinationsUnsubscribeRef)
                          \cup {OnlineListener(c)}
        /\ destinationsUnsubscribeRef' = Some(OnlineListener(c))
        /\ isOnline' = SetState(isOnline, TRUE)
        /\ isTogglingOnline' = SetState(isTogglingOnline, FALSE)
        /\ DidCall("goOnlineCreated", NoMsg, c)
  /\ UNCHANGED <<mounted, authVars, locVars, destVars, matchVars,
                 throttleVars, signOutPc, handlers, now>>

\* variant: the failed write is sent once more
goOnlineFailedRetry ==
  /\ HeadIs("create")
  /\ writes' = Append(Tail(writes), Head(writes))
  /\ DidCall("goOnlineFailed", alert("Failed to go online. Please try again."),
             Head(writes).call)
  /\ UNCHANGED <<mounted, authVars, locVars, destVars, isOnline,
                 isTogglingOnline, matchVars, watchVars, subVars,
                 throttleVars, destinationDoc, signOutPc, handlers, now>>

\* variant: setIsOnline(true) runs before the await, a failure leaves it set
goOnlineFailedOnline ==
  /\ HeadIs("create")
  /\ writes' = Tail(writes)
  /\ isOnline' = SetState(isOnline, TRUE)
  /\ isTogglingOnline' = SetState(isTogglingOnline, FALSE)
  /\ DidCall("goOnlineFailed", alert("Failed to go online. Please try again."),
             Head(writes).call)
  /\ UNCHANGED <<mounted, authVars, locVars, destVars, matchVars,
                 watchVars, subVars, throttleVars, destinationDoc,
                 signOutPc, handlers, now>>

\* createDestination failed: catch logs and alerts, finally clears the flag
goOnlineFailed ==
  /\ HeadIs("create")
  /\ writes' = Tail(writes)
  /\ isTogglingOnline' = SetState(isTogglingOnline, FALSE)
  /\ DidCall("goOnlineFailed", alert("Failed to go online. Please try again."),
             Head(writes).call)
  /\ UNCHANGED <<mounted, authVars, locVars, destVars, isOnline, matchVars,
                 watchVars, subVars, throttleVars, destinationDoc,
                 signOutPc, handlers, now>>

\* goOffline up to its await: the guard, the flag, the watcher stopped,
\* deleteDestination sent; caller is "toggle" or "signout"
goOffline(caller) ==
  /\ user # NoUser
  /\ CountCalls < MaxCalls
  /\ isTogglingOnline' = TRUE
  /\ watches' = clearWatch(watches, watchIdRef)
  /\ watchIdRef' = Null
  /\ writes' = Append(writes,
       [op |-> "delete",
        call |-> [caller |-> caller, from |-> Status]])
  /\ UNCHANGED <<mounted, authVars, locVars, destVars, isOnline, matchVars,
                 subVars, throttleVars, destinationDoc, handlers, now>>

\* handleSignOut after its goOffline returned: signOut() is issued
SignOutContinues(caller) ==
  signOutPc' = IF caller = "signout" THEN "awaitSignOut" ELSE signOutPc

\* variant: the online flag is flipped instead of cleared
goOfflineDeletedFlips ==
  /\ HeadIs("delete")
  /\ writes' = Tail(writes)
  /\ destinationDoc' = Null
  /\ listeners' = unsubscribe(listeners, destinationsUnsubscribeRef)
  /\ destinationsUnsubscribeRef' = Null
  /\ matchedUsers' = SetState(matchedUsers, <<>>)
  /\ destinationName' = SetState(destinationName, "")
  /\ destinationCoords' = SetState(destinationCoords, Null)
  /\ isOnline' = SetState(isOnline, ~isOnline)
  /\ isTogglingOnline' = SetState(isTogglingOnline, FALSE)
  /\ SignOutContinues(Head(writes).call.caller)
  /\ DidCall("goOfflineDeleted", NoMsg, Head(writes).call)
  /\ UNCHANGED <<mounted, authVars, locVars, isLoadingMatches, watchVars,
                 throttleVars, handlers, now>>

\* deleteDestination succeeded: unsubscribe, clear the state
goOfflineDeleted ==
  /\ HeadIs("delete")
  /\ writes' = Tail(writes)
  /\ destinationDoc' = Null
  /\ listeners' = unsubscribe(listeners, destinationsUnsubscribeRef)
  /\ destinationsUnsubscribeRef' = Null
  /\ matchedUsers' = SetState(matchedUsers, <<>>)
  /\ destinationName' = SetState(destinationName, "")
  /\ destinationCoords' = SetState(destinationCoords, Null)
  /\ isOnline' = SetState(isOnline, FALSE)
  /\ isTogglingOnline' = SetState(isTogglingOnline, FALSE)
  /\ SignOutContinues(Head(writes).call.caller)
  /\ DidCall("goOfflineDeleted", NoMsg, Head(writes).call)
  /\ UNCHANGED <<mounted, authVars, locVars, isLoadingMatches, watchVars,
                 throttleVars, handlers, now>>

\* variant: the failure is tolerated and the local state cleared all the same
goOfflineFailedClears ==
  /\ HeadIs("delete")
  /\ writes' = Tail(writes)
  /\ listeners' = unsubscribe(listeners, destinationsUnsubscribeRef)
  /\ destinationsUnsubscribeRef' = Null
  /\ matchedUsers' = SetState(matchedUsers, <<>>)
  /\ destinationName' = SetState(destinationName, "")
  /\ destinationCoords' = SetState(destinationCoords, Null)
  /\ isOnline' = SetState(isOnline, FALSE)
  /\ isTogglingOnline' = SetState(isTogglingOnline, FALSE)
  /\ SignOutContinues(Head(writes).call.caller)
  /\ DidCall("goOfflineFailed", NoMsg, Head(writes).call)
  /\ UNCHANGED <<mounted, authVars, locVars, isLoadingMatches, watchVars,
                 throttleVars, destinationDoc, handlers, now>>

\* deleteDestination failed: catch logs and alerts, finally clears the flag
goOfflineFailed ==
  /\ HeadIs("delete")
  /\ writes' = Tail(writes)
  /\ isTogglingOnline' = SetState(isTogglingOnline, FALSE)
  /\ SignOutContinues(Head(writes).call.caller)
  /\ DidCall("goOfflineFailed", alert("Failed to go offline. Please try again."),
             Head(writes).call)
  /\ UNCHANGED <<mounted, authVars, locVars, destVars, isOnline, matchVars,
                 watchVars, subVars, throttleVars, destinationDoc,
                 handlers, now>>

\* a click on the enabled toggle
handleToggleOnline ==
  /\ mounted /\ ~ToggleDisabled
  /\ IF isOnline
     THEN goOffline("toggle") /\ Did("toggleOffline") /\ UNCHANGED signOutPc
     ELSE goOnline /\ Did("toggleOnline")

\* variant: the loading flag is raised before the validation returns
handleToggleOnlineRejectedBusy ==
  /\ mounted /\ ~isOnline
  /\ destinationCoords = Null \/ myLocation = Null
  /\ isTogglingOnline' = TRUE
  /\ DidAlert("toggleRejected", alert("Please select a destination first."))
  /\ UNCHANGED <<mounted, authVars, locVars, destVars, isOnline, matchVars,
                 watchVars, subVars, throttleVars, destinationDoc, callVars,
                 handlers, now>>

\* handleToggleOnline called without a destination or without a position:
\* its validation alerts and returns before goOnline
handleToggleOnlineRejected ==
  /\ mounted /\ ~isOnline
  /\ destinationCoords = Null \/ myLocation = Null
  /\ DidAlert("toggleRejected",
              alert(IF destinationCoords = Null
                    THEN "Please select a destination first."
                    ELSE "Waiting for your location. Please allow location access."))
  /\ UNCHANGED <<mounted, authVars, locVars, destVars, isOnline,
                 isTogglingOnline, matchVars, watchVars, subVars,
                 throttleVars, destinationDoc, callVars, handlers, now>>

\* ----------------------------------------------------------------- sign out
\* variant: goOffline is called and not awaited
handleSignOutNoAwait ==
  /\ mounted /\ signOutPc = "idle"
  /\ signOutPc' = "awaitSignOut"
  /\ IF isOnline
     THEN goOffline("signout")
     ELSE UNCHANGED <<mounted, authVars, locVars, destVars, isOnline,
                      isTogglingOnline, matchVars, watchVars, subVars,
                      throttleVars, destinationDoc, writes, handlers, now>>
  /\ Did("handleSignOut")

\* a click on Sign Out: goOffline first when the render shows online
handleSignOut ==
  /\ mounted /\ signOutPc = "idle"
  /\ IF isOnline
     THEN /\ goOffline("signout")
          /\ signOutPc' = "awaitGoOffline"
     ELSE /\ signOutPc' = "awaitSignOut"
          /\ UNCHANGED <<mounted, authVars, locVars, destVars, isOnline,
                         isTogglingOnline, matchVars, watchVars, subVars,
                         throttleVars, destinationDoc, writes, handlers, now>>
  /\ Did("handleSignOut")

\* signOut() resolved: navigate('/login') unmounts the page
signOutDone ==
  /\ signOutPc = "awaitSignOut"
  /\ signOutPc' = "done"
  /\ IF mounted THEN CleanupOnUnmount
                ELSE UNCHANGED <<mounted, watchVars, subVars>>
  /\ Did("signOutDone")
  /\ UNCHANGED <<authVars, locVars, destVars, isOnline, isTogglingOnline,
                 matchVars, throttleVars, destinationDoc, writes, handlers,
                 now>>

\* signOut() rejected: the error is logged, the page stays
signOutFailed ==
  /\ signOutPc = "awaitSignOut"
  /\ signOutPc' = "idle"
  /\ Did("signOutFailed")
  /\ UNCHANGED <<mounted, authVars, locVars, destVars, isOnline,
                 isTogglingOnline, matchVars, watchVars, subVars,
                 throttleVars, destinationDoc, writes, handlers, now>>

\* ------------------------------------------------------------ cohort events
\* variant: the comparator reversed, (a, b) => b.distance - a.distance
RECURSIVE InsertByDistanceDesc(_, _)
InsertByDistanceDesc(sorted, m) ==
  IF sorted = <<>> THEN <<m>>
  ELSE IF m.distance > Head(sorted).distance
       THEN <<m>> \o sorted
       ELSE <<Head(sorted)>> \o InsertByDistanceDesc(Tail(sorted), m)

\* Array.prototype.sort((a, b) => a.distance - b.distance): stable
RECURSIVE InsertByDistance(_, _)
InsertByDistance(sorted, m) ==
  IF sorted = <<>> THEN <<m>>
  ELSE IF m.distance < Head(sorted).distance
       THEN <<m>> \o sorted
       ELSE <<Head(sorted)>> \o InsertByDistance(Tail(sorted), m)

RECURSIVE SortByDistance(_)
SortByDistance(ms) ==
  IF ms = <<>> THEN <<>>
  ELSE InsertByDistance(SortByDistance(SubSeq(ms, 1, Len(ms) - 1)), ms[Len(ms)])

\* variant: the filter without its test of the uid
IsMatchingDestinationAnyUid(l, dest) ==
  /\ destinationsMatch(l.dest, dest.destinationLat)
  /\ l.loc # Null
  /\ haversineDistance(l.loc[1], dest.currentLat) <= RadiusMeters

\* the filter of the snapshot callback, with the closure values of listener l
IsMatchingDestination(l, dest) ==
  /\ dest.uid # l.user
  /\ destinationsMatch(l.dest, dest.destinationLat)
  /\ l.loc # Null
  /\ haversineDistance(l.loc[1], dest.currentLat) <= RadiusMeters

MatchingDestinations(l, destinations) ==
  SelectSeq(destinations, LAMBDA dest : IsMatchingDestination(l, dest))

\* one entry of the matched users list
MatchedUser(dest, distance) ==
  [uid |-> dest.uid, destination |-> dest, distance |-> distance,
   isNear |-> (distance <= RadiusMeters)]

\* the list built after getUserProfiles: keep the uids that have a profile,
\* compute the distance from the closure's myLocation, sort
BuildMatches(matching, loc) ==
  LET withProfile == SelectSeq(matching, LAMBDA dest : dest.uid \in ProfileUids)
  IN SortByDistance(
       [i \in 1..Len(withProfile) |->
          MatchedUser(withProfile[i],
                      IF loc # Null
                      THEN haversineDistance(loc[1], withProfile[i].currentLat)
                      ELSE Infinity)])

\* variant: the distance is replaced and the flag of the entry kept
updateMatchedUsersDistancesKeepsNear(prev, myNewLocation) ==
  SortByDistance(
    [i \in 1..Len(prev) |->
       [prev[i] EXCEPT !.distance =
          haversineDistance(myNewLocation, prev[i].destination.currentLat)]])

updateMatchedUsersDistances(prev, myNewLocation) ==
  SortByDistance(
    [i \in 1..Len(prev) |->
       MatchedUser(prev[i].destination,
                   haversineDistance(myNewLocation, prev[i].destination.currentLat))])

\* const sortedMatches = [...matchedUsers].sort(...): the list handed to
\* MatchList and MapView
sortedMatches == SortByDistance(matchedUsers)

\* variant: the query without its where('gender', '==', gender)
SnapshotAnyGender(l, others) ==
  (IF destinationDoc # Null THEN destinationDoc ELSE <<>>) \o others

\* variant: the limits belong to the farther zone
getDistanceZoneStrict(distance) ==
  IF distance < 500 THEN "very-close"
  ELSE IF distance < 1000 THEN "far"
  ELSE "very-far"

\* MapView: the zone of a distance
getDistanceZone(distance) ==
  IF distance <= 500 THEN "very-close"
  ELSE IF distance <= 1000 THEN "far"
  ELSE "very-far"

\* MapView draws one marker per entry of the list it is handed, coloured by
\* the zone of the entry's distance
MapViewMarkers ==
  [i \in DOMAIN sortedMatches |->
     [uid |-> sortedMatches[i].uid,
      zone |-> getDistanceZone(sortedMatches[i].distance)]]

\* subscribeToDestinations(gender, callback): the snapshot holds every
\* Destination document of that gender, the subscriber's own included
Snapshot(l, others) ==
  (IF destinationDoc # Null /\ destinationDoc[1].gender = l.gender
   THEN destinationDoc ELSE <<>>)
  \o SelectSeq(others, LAMBDA d : d.gender = l.gender)

\* variant: the early return leaves the loading flag as it is
CohortEventOfKeepsLoading(snapshots) ==
  \E l \in listeners, others \in snapshots :
    LET destinations == Snapshot(l, others)
        matching == MatchingDestinations(l, destinations)
    IN /\ IF Len(matching) = 0
          THEN /\ matchedUsers' = SetState(matchedUsers, <<>>)
               /\ DidEvent(l, destinations)
               /\ UNCHANGED <<handlers, isLoadingMatches>>
          ELSE /\ Cardinality(handlers) < MaxHandlers
               /\ handlers' = handlers \cup
                    {[l |-> l, destinations |-> destinations, matching |-> matching]}
               /\ Did("CohortEvent")
               /\ UNCHANGED <<matchVars>>
       /\ UNCHANGED <<mounted, authVars, locVars, destVars, isOnline,
                      isTogglingOnline, watchVars, subVars, throttleVars,
                      destinationDoc, callVars, now>>

\* a snapshot arrives at an open listener: the callback runs up to its
\* await (or to its end when nothing matches)
CohortEventOf(snapshots) ==
  \E l \in listeners, others \in snapshots :
    LET destinations == Snapshot(l, others)
        matching == MatchingDestinations(l, destinations)
    IN /\ IF Len(matching) = 0
          THEN /\ matchedUsers' = SetState(matchedUsers, <<>>)
               /\ isLoadingMatches' = SetState(isLoadingMatches, FALSE)
               /\ DidEvent(l, destinations)
               /\ UNCHANGED handlers
          ELSE /\ Cardinality(handlers) < MaxHandlers
               /\ handlers' = handlers \cup
                    {[l |-> l, destinations |-> destinations, matching |-> matching]}
               /\ Did("CohortEvent")
               /\ UNCHANGED <<matchVars>>
       /\ UNCHANGED <<mounted, authVars, locVars, destVars, isOnline,
                      isTogglingOnline, watchVars, subVars, throttleVars,
                      destinationDoc, callVars, now>>

\* getUserProfiles resolved: the callback builds and sets the list
CohortHandled ==
  \E h \in handlers :
    /\ handlers' = handlers \ {h}
    /\ matchedUsers' = SetState(matchedUsers, BuildMatches(h.matching, h.l.loc))
    /\ isLoadingMatches' = SetState(isLoadingMatches, FALSE)
    /\ DidEvent(h.l, h.destinations)
    /\ UNCHANGED <<mounted, authVars, locVars, destVars, isOnline,
                   isTogglingOnline, watchVars, subVars, throttleVars,
                   destinationDoc, callVars, now>>

\* getUserProfiles rejected: the callback ends without touching the state
CohortHandlerFailed ==
  \E h \in handlers :
    /\ handlers' = handlers \ {h}
    /\ Did("CohortHandlerFailed")
    /\ UNCHANGED <<mounted, authVars, locVars, destVars, isOnline,
                   isTogglingOnline, matchVars, watchVars, subVars,
                   throttleVars, destinationDoc, callVars, now>>

\* ---------------------------------------------------------- position watch
\* the throttle test of the watch callback
ShouldPublish(newLocation) ==
  LET timeSinceLastUpdate == now - lastUpdateTimeRef
      distanceMoved == IF lastLocationRef # Null
                       THEN haversineDistance(lastLocationRef[1], newLocation)
                       ELSE Infinity
  IN distanceMoved > PublishMinMeters \/ timeSinceLastUpdate > PublishMinMs

\* what the callback of watch w does with the list once it reaches its end:
\* only startLocationWatch calls updateMatchedUsersDistances
AfterSample(w, newLocation) ==
  IF w.kind = "online"
  THEN SetState(matchedUsers, updateMatchedUsersDistances(matchedUsers, newLocation))
  ELSE matchedUsers

\* a position sample arrives at a registered watch: the callback runs up to
\* its await (or to its end when nothing is published)
WatchSampleOf(points) ==
  \E w \in watches, newLocation \in points :
    /\ myLocation' = SetState(myLocation, Some(newLocation))
    /\ IF ShouldPublish(newLocation)
       THEN IF w.user # NoUser
            THEN /\ CountPending("update") < MaxPublishes
                 /\ writes' = Append(writes,
                      [op |-> "update",
                       call |-> [w |-> w, loc |-> newLocation, at |-> now]])
                 /\ UNCHANGED <<throttleVars, matchedUsers>>
            ELSE /\ lastLocationRef' = Some(newLocation)
                 /\ lastUpdateTimeRef' = now
                 /\ matchedUsers' = AfterSample(w, newLocation)
                 /\ UNCHANGED writes
       ELSE /\ matchedUsers' = AfterSample(w, newLocation)
            /\ UNCHANGED <<throttleVars, writes>>
    /\ Did("WatchSample")
    /\ UNCHANGED <<mounted, authVars, locPc, locationError, destVars,
                   isOnline, isTogglingOnline, isLoadingMatches, watchVars,
                   subVars, destinationDoc, signOutPc, handlers, now>>

\* updateDestinationLocation(uid, lat, lng): updates the position of an
\* existing document
updateDestinationLocation(doc, lat) ==
  IF doc # Null THEN Some([doc[1] EXCEPT !.currentLat = lat]) ELSE doc

\* updateDestinationLocation settled (a rejection is caught and logged):
\* the throttle refs are set, then the distances are updated
WatchPublished ==
  \E ok \in BOOLEAN :
    /\ HeadIs("update")
    /\ writes' = Tail(writes)
    /\ LET pub == Head(writes).call
       IN /\ destinationDoc' =
               IF ok THEN updateDestinationLocation(destinationDoc, pub.loc)
                     ELSE destinationDoc
          /\ lastLocationRef' = Some(pub.loc)
          /\ lastUpdateTimeRef' = pub.at
          /\ matchedUsers' = AfterSample(pub.w, pub.loc)
    /\ Did("WatchPublished")
    /\ UNCHANGED <<mounted, authVars, locVars, destVars, isOnline,
                   isTogglingOnline, isLoadingMatches, watchVars, subVars,
                   signOutPc, handlers, now>>

\* GeolocationPositionError.code: PERMISSION_DENIED, POSITION_UNAVAILABLE,
\* TIMEOUT
ErrorCodes == {1, 2, 3}

getGeolocationErrorMessage(code) ==
  CASE code = 1 -> "Location access denied. Please enable location permissions."
    [] code = 2 -> "Location information unavailable."
    [] code = 3 -> "Location request timed out."
    [] OTHER -> "An error occurred while getting your location."

\* variant: an error of the position source ends the watch
WatchErrorStopsWatch(codes) ==
  \E w \in watches, code \in codes :
    /\ locationError' = SetState(locationError, getGeolocationErrorMessage(code))
    /\ watches' = watches \ {w}
    /\ watchIdRef' = Null
    /\ Did("WatchError")
    /\ UNCHANGED <<mounted, authVars, locPc, myLocation, destVars, isOnline,
                   isTogglingOnline, matchVars, subVars,
                   throttleVars, destinationDoc, callVars, handlers, now>>

\* the position source reports an error to a registered watch
WatchErrorOf(codes) ==
  \E w \in watches, code \in codes :
    /\ locationError' = SetState(locationError, getGeolocationErrorMessage(code))
    /\ Did("WatchError")
    /\ UNCHANGED <<mounted, authVars, locPc, myLocation, destVars, isOnline,
                   isTogglingOnline, matchVars, watchVars, subVars,
                   throttleVars, destinationDoc, callVars, handlers, now>>

\* time passes
Tick ==
  /\ now < StartMs + MaxTicks * TickMs
  /\ now' = now + TickMs
  /\ Did("Tick")
  /\ UNCHANGED <<mounted, authVars, locVars, destVars, isOnline,
                 isTogglingOnline, matchVars, watchVars, subVars,
                 throttleVars, destinationDoc, callVars, handlers>>

\* ------------------------------------------------------------ specification
\* the session from mount to sign-out, with one other traveler in the cohort
\* and a device that stays at one place, observed within one throttle window
SessionLocPoints == {0}
SessionSnapshots == {<<DestinationRec(Others[1], 400, 100)>>}
\* the position source fails by timing out
SessionErrorCodes == {3}

InitialLocation == InitialLocationOf(SessionLocPoints)
CohortEvent == CohortEventOf(SessionSnapshots)
WatchSample == WatchSampleOf(SessionLocPoints)
WatchError == WatchErrorOf(SessionErrorCodes)

Next ==
  \/ AuthChanged
  \/ ProfileLoaded
  \/ DestinationLoaded
  \/ InitialLocation
  \/ InitialLocationError
  \/ handleDestinationSelect
  \/ handleToggleOnline
  \/ handleToggleOnlineRejected
  \/ goOnlineCreated
  \/ goOnlineFailed
  \/ goOfflineDeleted
  \/ goOfflineFailed
  \/ handleSignOut
  \/ signOutDone
  \/ signOutFailed
  \/ CohortEvent
  \/ CohortHandled
  \/ CohortHandlerFailed
  \/ WatchSample
  \/ WatchPublished
  \/ WatchError

Spec == Init /\ [][Next]_vars

\* ------------------------------------------------- the session while online
\* the states in which a session starts to match: right after goOnline
\* succeeded for the destination of StaleDoc and some position, right
\* after the auth effect restored the session from StaleDoc, or right after
\* the auth effect restored the session from the document that a goOnline
\* had written while getDestination was pending (the handler of a snapshot
\* delivered to that goOnline's listener is still awaiting its profiles)
MatchInit ==
  /\ mounted = TRUE
  /\ authPc = "done"
  /\ user = Me /\ userProfile = Some([uid |-> Me, gender |-> MyGender])
  /\ locationError = NoMsg
  /\ destinationName = StaleDoc.destinationName
  /\ destinationCoords = Some(StaleDoc.destinationLat)
  /\ isOnline = TRUE /\ isTogglingOnline = FALSE
  /\ matchedUsers = <<>> /\ isLoadingMatches = TRUE
  /\ lastUpdateTimeRef = 0
  /\ writes = <<>>
  /\ signOutPc = "idle"
  /\ now = StartMs
  /\ alertMsg = NoMsg
  /\ lastEvent = NoEvent
  /\ trips = {}
  /\ tripCalls = [t \in Tabs |-> TabIdle]
  /\ geo = GeoIdle
  /\ debounced = DebounceIdle
  /\ \/ \E loc \in LocPoints :
          LET c == [user |-> Me, gender |-> MyGender,
                    destName |-> StaleDoc.destinationName,
                    dest |-> StaleDoc.destinationLat,
                    loc |-> loc, caller |-> "toggle", from |-> "OFFLINE"]
          IN /\ locPc = "done"
             /\ myLocation = Some(loc) /\ lastLocationRef = Some(loc)
             /\ destinationDoc = createDestination(c)
             /\ watchIdRef = Some(OnlineWatch(c))
             /\ watches = {OnlineWatch(c)}
             /\ destinationsUnsubscribeRef = Some(OnlineListener(c))
             /\ listeners = {OnlineListener(c)}
             /\ handlers = {}
             /\ lastOp = "goOnlineCreated"
             /\ lastCall = [caller |-> c.caller, from |-> c.from]
     \/ LET l == RestoreListener([uid |-> Me, gender |-> MyGender],
                                 StaleDoc.destinationLat)
        IN /\ locPc = "pending"
           /\ myLocation = Null /\ lastLocationRef = Null
           /\ destinationDoc = Some(StaleDoc)
           /\ watchIdRef = Some(RestoreWatch)
           /\ watches = {RestoreWatch}
           /\ destinationsUnsubscribeRef = Some(l)
           /\ listeners = {l}
           /\ handlers = {}
           /\ lastOp = "DestinationLoaded"
           /\ lastCall = NoCall
     \/ LET c == [user |-> Me, gender |-> MyGender,
                  destName |-> StaleDoc.destinationName,
                  dest |-> StaleDoc.destinationLat,
                  loc |-> 0, caller |-> "toggle", from |-> "STARTING"]
            l == RestoreListener([uid |-> Me, gender |-> MyGender],
                                 StaleDoc.destinationLat)
            others == <<DestinationRec(Others[1], 400, 100)>>
        IN /\ locPc = "done"
           /\ myLocation = Some(c.loc) /\ lastLocationRef = Some(c.loc)
           /\ destinationDoc = createDestination(c)
           /\ watchIdRef = Some(RestoreWatch)
           /\ watches = {RestoreWatch}
           /\ destinationsUnsubscribeRef = Some(l)
           /\ listeners = {l}
           /\ handlers = {[l |-> OnlineListener(c),
                           destinations |-> createDestination(c) \o others,
                           matching |-> others]}
           /\ lastOp = "DestinationLoaded"
           /\ lastCall = NoCall

MatchInitialLocation == InitialLocationOf(LocPoints)
MatchCohortEvent == CohortEventOf(OtherSnapshots)
MatchWatchSample == WatchSampleOf(LocPoints)
MatchWatchError == WatchErrorOf(ErrorCodes)

MatchNext ==
  \/ MatchInitialLocation
  \/ InitialLocationError
  \/ MatchCohortEvent
  \/ CohortHandled
  \/ CohortHandlerFailed
  \/ MatchWatchSample
  \/ WatchPublished
  \/ WatchError
  \/ Tick

MatchSpec == MatchInit /\ [][MatchNext]_vars

\* the session while online, with every kind of error of the position
\* source, one other traveler in the cohort and a device that stays at one
\* place
ErrorNext ==
  \/ InitialLocation
  \/ InitialLocationError
  \/ CohortEvent
  \/ CohortHandled
  \/ CohortHandlerFailed
  \/ WatchSample
  \/ WatchPublished
  \/ MatchWatchError
  \/ Tick

ErrorSpec == MatchInit /\ [][ErrorNext]_vars

\* the store ends a listener's stream with an error: the page passes no
\* error callback to the subscription, so nothing of the page runs
StreamDropped ==
  \E l \in listeners :
    /\ listeners' = listeners \ {l}
    /\ Did("StreamDropped")
    /\ UNCHANGED <<mounted, authVars, locVars, destVars, isOnline,
                   isTogglingOnline, matchVars, watchVars,
                   destinationsUnsubscribeRef, throttleVars, destinationDoc,
                   callVars, handlers, now>>

\* the session while online with a cohort stream that may drop; a
\* continuation whose promise has settled is eventually run
DropNext ==
  \/ InitialLocation
  \/ InitialLocationError
  \/ CohortEvent
  \/ CohortHandled
  \/ CohortHandlerFailed
  \/ WatchSample
  \/ WatchPublished
  \/ WatchError
  \/ Tick
  \/ StreamDropped

DropSpec ==
  /\ MatchInit
  /\ [][DropNext]_vars
  /\ WF_vars(CohortHandled \/ CohortHandlerFailed)
  /\ WF_vars(WatchPublished)

\* ------------------------------------------------ trips (the trip revision)
\* a trip document (the fields the queries read)
Trip(id, uid, status) == [id |-> id, uid |-> uid, status |-> status]

\* where('uid', '==', uid), where('status', '==', 'active')
ActiveTrips(uid) == {d \in trips : d.uid = uid /\ d.status = "active"}

\* addDoc: the new document gets an id no other document has
NewTripId == Cardinality(trips) + 1

\* updateDoc(doc(db, 'trips', id), {status, ...})
SetTripStatus(ids, status) ==
  {IF d.id \in ids THEN Trip(d.id, d.uid, status) ELSE d : d \in trips}

\* goOnline of a tab calls createOrUpdateTrip, which awaits getActiveTrip:
\* the query returns docs[0] of the active trips of the user, or null
getActiveTrip(t) ==
  /\ tripCalls[t].pc = "idle"
  /\ Cardinality(trips)
       + Cardinality({u \in Tabs : tripCalls[u].pc = "queried"}) < MaxTrips
  /\ \E found \in (IF ActiveTrips(Me) = {} THEN {{}}
                    ELSE {{d.id} : d \in ActiveTrips(Me)}) :
       tripCalls' = [tripCalls EXCEPT ![t] = [pc |-> "queried", found |-> found]]
  /\ UNCHANGED <<trips, pageVars, utilVars>>

\* createOrUpdateTrip after getActiveTrip: update the trip found (the
\* written fields include status: 'active'), or add a new one
createOrUpdateTrip(t) ==
  /\ tripCalls[t].pc = "queried"
  /\ trips' = IF tripCalls[t].found # {}
              THEN SetTripStatus(tripCalls[t].found, "active")
              ELSE trips \cup {Trip(NewTripId, Me, "active")}
  /\ tripCalls' = [tripCalls EXCEPT ![t] = [pc |-> "created", found |-> {}]]
  /\ UNCHANGED <<pageVars, utilVars>>

\* goOnline after createOrUpdateTrip: publishLiveLocation succeeded, the
\* watch and the subscription are started and the tab is online
publishLiveLocation(t) ==
  /\ tripCalls[t].pc = "created"
  /\ tripCalls' = [tripCalls EXCEPT ![t] = [pc |-> "online", found |-> {}]]
  /\ UNCHANGED <<trips, pageVars, utilVars>>

\* publishLiveLocation rejected: the catch block of goOnline alerts, the tab
\* stays offline and nothing is written to the trips collection
publishLiveLocationFailed(t) ==
  /\ tripCalls[t].pc = "created"
  /\ tripCalls' = [tripCalls EXCEPT ![t] = TabIdle]
  /\ UNCHANGED <<trips, pageVars, utilVars>>

\* goOffline of a tab calls deactivateUserTrips, which awaits its query
deactivateUserTripsQuery(t) ==
  /\ tripCalls[t].pc = "online"
  /\ tripCalls' = [tripCalls EXCEPT ![t] =
       [pc |-> "deactivating", found |-> {d.id : d \in ActiveTrips(Me)}]]
  /\ UNCHANGED <<trips, pageVars, utilVars>>

\* deactivateUserTrips after its query: every trip found is set inactive
deactivateUserTrips(t) ==
  /\ tripCalls[t].pc = "deactivating"
  /\ trips' = SetTripStatus(tripCalls[t].found, "inactive")
  /\ tripCalls' = [tripCalls EXCEPT ![t] = TabIdle]
  /\ UNCHANGED <<pageVars, utilVars>>

TripInit == Init /\ destinationDoc = Null

TripNext ==
  \/ \E t \in Tabs : getActiveTrip(t)
  \/ \E t \in Tabs : createOrUpdateTrip(t)
  \/ \E t \in Tabs : publishLiveLocation(t)
  \/ \E t \in Tabs : publishLiveLocationFailed(t)
  \/ \E t \in Tabs : deactivateUserTripsQuery(t)
  \/ \E t \in Tabs : deactivateUserTrips(t)

TripSpec == TripInit /\ [][TripNext]_vars

\* ------------------------------------------- the cohort seen by the session
\* the session while online with a device that stays at one place; the store
\* holds traveler a and traveler b at the same place 100 m away, both heading
\* to a destination that matches the local one, with traveler b either of
\* the session's gender or of the other, or it holds traveler a alone,
\* heading elsewhere
CohortStores ==
  LET a == DestinationRec(Others[1], 400, 100)
      b == DestinationRec(Others[2], 400, 100)
  IN {<<a, b>>, <<b, a>>,
      <<a, WithGender(b, OtherGender)>>, <<WithGender(b, OtherGender)>>,
      <<DestinationRec(Others[1], 1000, 100)>>}

StoreCohortEvent == CohortEventOf(CohortStores)

CohortNext ==
  \/ InitialLocation
  \/ InitialLocationError
  \/ StoreCohortEvent
  \/ CohortHandled
  \/ CohortHandlerFailed
  \/ WatchSample
  \/ WatchPublished
  \/ WatchError
  \/ Tick

CohortSpec == MatchInit /\ [][CohortNext]_vars

\* ------------------------------------------------- a peer of the same cohort
\* traveler a uses the app on another device: a's record is in the store
\* while a is online
Peer == Others[1]

\* what an operation of the peer's device leaves of this page: nothing of it
\* changes, and the operation is the last one that ran
PeerDid(op) ==
  /\ lastOp' = op
  /\ alertMsg' = NoMsg /\ lastEvent' = NoEvent /\ lastCall' = NoCall
  /\ UNCHANGED <<mounted, authVars, locVars, destVars, isOnline,
                 isTogglingOnline, matchVars, watchVars, subVars,
                 throttleVars, destinationDoc, callVars, handlers, now,
                 tripCalls, utilVars>>

\* the peer's goOnline completed: createOrUpdateTrip found no active trip
\* of the peer and added one
PeerWentOnline ==
  /\ ActiveTrips(Peer) = {}
  /\ Cardinality(trips) < MaxTrips
  /\ trips' = trips \cup {Trip(NewTripId, Peer, "active")}
  /\ PeerDid("PeerWentOnline")

\* the peer's goOffline completed: deactivateUserTrips set every active trip
\* of the peer inactive
PeerWentOffline ==
  /\ ActiveTrips(Peer) # {}
  /\ trips' = SetTripStatus({d.id : d \in ActiveTrips(Peer)}, "inactive")
  /\ PeerDid("PeerWentOffline")

\* the records of the other travelers that are active in the store: the
\* peer's, 100 m away and heading to a matching destination, while online
ActiveRecords ==
  IF ActiveTrips(Peer) # {} THEN <<DestinationRec(Peer, 400, 100)>> ELSE <<>>

\* the store notifies the listener with the records active at that moment
PeerCohortEvent == CohortEventOf({ActiveRecords})

PeerNext ==
  \/ PeerWentOnline
  \/ PeerWentOffline
  \/ PeerCohortEvent
  \/ CohortHandled
  \/ CohortHandlerFailed
  \/ WatchSample
  \/ WatchPublished

\* the session right after its goOnline succeeded, the peer being offline
PeerInit == MatchInit /\ lastOp = "goOnlineCreated"

PeerSpec == PeerInit /\ [][PeerNext]_vars

\* ---------------------------------------------------------- the geo kernel
\* the distances, in meters, getDistanceZone is called with
ZoneDistances == (0..10) \cup (495..505) \cup (995..1005) \cup {2000, Infinity}
\* the points of the equator, in meters along it, destinationsMatch is
\* called with
MatchPoints == {0, 1, 250, 499, 500, 501, 1000}
\* the distances, in tenths of a meter, formatDistance is called with
FormatTenths == (0..10) \cup (9980..10020) \cup (10490..10510) \cup {123456}

Call(fn, args) == [fn |-> fn, args |-> args, result |-> Null]

GeoCalls ==
  {Call("getDistanceZone", <<d>>) : d \in ZoneDistances}
  \cup {Call("destinationsMatch", <<p, q>>) : p \in MatchPoints, q \in MatchPoints}
  \cup {Call("formatDistance", <<t>>) : t \in FormatTenths}
  \cup {Call("haversineDistance", <<p, q>>) : p \in GridCoords, q \in GridCoords}

\* the call returns
Return(fn, value) ==
  /\ geo.fn = fn /\ geo.result = Null
  /\ geo' = [geo EXCEPT !.result = Some(value)]
  /\ UNCHANGED <<pageVars, tripVars, debounced>>

GeoInit ==
  PageInit /\ destinationDoc = Null /\ geo \in GeoCalls
    /\ debounced = DebounceIdle

GeoNext ==
  \/ Return("getDistanceZone", getDistanceZone(geo.args[1]))
  \/ Return("destinationsMatch", destinationsMatch(geo.args[1], geo.args[2]))
  \/ Return("formatDistance", formatDistance(geo.args[1]))
  \/ Return("haversineDistance",
            haversineDistanceOf(geo.args[1], geo.args[2]))

GeoSpec == GeoInit /\ [][GeoNext]_vars

\* ------------------------------------- the match list of the trip revision
\* a trip document as subscribeToActiveTripsByGender delivers it
TripRec(id, uid, dest) ==
  [id |-> id, uid |-> uid, gender |-> MyGender, destinationLat |-> dest]

\* snapshots of the active trips of the session's gender: two travelers, the
\* session's own trip, a traveler heading elsewhere, and a traveler with two
\* active trips (both tabs of that traveler created a trip)
TripSnapshots ==
  {<<TripRec(1, Others[1], 400), TripRec(2, Others[2], 400)>>,
   <<TripRec(1, Me, 0), TripRec(2, Others[1], 400)>>,
   <<TripRec(1, Others[1], 1000)>>,
   <<TripRec(1, Others[1], 400), TripRec(2, Others[1], 400)>>}

\* uids.filter(profiles.has).map(uid => ({uid, trip: tripsByUid.get(uid),
\* liveLocation: null, distance: Infinity, isNear: false})); tripsByUid.set
\* keeps the last trip of a uid
initialMatches(matchingTrips) ==
  LET uids == [i \in DOMAIN matchingTrips |-> matchingTrips[i].uid]
      withProfile == SelectSeq(uids, LAMBDA uid : uid \in ProfileUids)
      tripsByUid(uid) ==
        LET last == CHOOSE i \in DOMAIN matchingTrips :
                      /\ matchingTrips[i].uid = uid
                      /\ \A j \in DOMAIN matchingTrips :
                           matchingTrips[j].uid = uid => j <= i
        IN matchingTrips[last]
  IN [i \in DOMAIN withProfile |->
        [uid |-> withProfile[i], trip |-> tripsByUid(withProfile[i]),
         liveLocation |-> Null, distance |-> Infinity, isNear |-> FALSE]]

\* a snapshot of trips arrives at the open listener: the callback of
\* subscribeToMatches runs up to its await (or to its end when no trip
\* matches)
TripsEvent ==
  \E l \in listeners, snapshot \in TripSnapshots :
    LET matchingTrips ==
          SelectSeq(snapshot, LAMBDA trip :
            trip.uid # l.user /\ destinationsMatch(l.dest, trip.destinationLat))
    IN /\ IF Len(matchingTrips) = 0
          THEN /\ matchedUsers' = SetState(matchedUsers, <<>>)
               /\ isLoadingMatches' = SetState(isLoadingMatches, FALSE)
               /\ DidEvent(l, snapshot)
               /\ UNCHANGED handlers
          ELSE /\ Cardinality(handlers) < MaxHandlers
               /\ handlers' = handlers \cup
                    {[l |-> l, destinations |-> snapshot,
                      matching |-> matchingTrips]}
               /\ Did("TripsEvent")
               /\ UNCHANGED <<matchVars>>
       /\ UNCHANGED <<mounted, authVars, locVars, destVars, isOnline,
                      isTogglingOnline, watchVars, subVars, throttleVars,
                      destinationDoc, callVars, now>>

\* getUserProfiles resolved: the callback sets the initial list (and
\* subscribes to the live locations of its uids, see LiveLocationEvent)
TripsHandled ==
  \E h \in handlers :
    /\ handlers' = handlers \ {h}
    /\ matchedUsers' = SetState(matchedUsers, initialMatches(h.matching))
    /\ isLoadingMatches' = SetState(isLoadingMatches, FALSE)
    /\ DidEvent(h.l, h.destinations)
    /\ UNCHANGED <<mounted, authVars, locVars, destVars, isOnline,
                   isTogglingOnline, watchVars, subVars, throttleVars,
                   destinationDoc, callVars, now>>

\* the callback of subscribeMultipleLiveLocations: the live location of a
\* listed uid arrives (or null once it was removed); every entry of that uid
\* gets the location, its distance from the closure's myLocation and isNear
LiveLocationEvent ==
  \E l \in listeners, i \in DOMAIN matchedUsers,
     location \in {Null} \cup {Some(p) : p \in LocPoints} :
    LET uid == matchedUsers[i].uid
        distance == IF location # Null /\ l.loc # Null
                    THEN haversineDistance(l.loc[1], location[1])
                    ELSE Infinity
    IN /\ matchedUsers' = SetState(matchedUsers,
            [k \in DOMAIN matchedUsers |->
               IF matchedUsers[k].uid = uid
               THEN [matchedUsers[k] EXCEPT !.liveLocation = location,
                                            !.distance = distance,
                                            !.isNear = (distance <= RadiusMeters)]
               ELSE matchedUsers[k]])
       /\ Did("LiveLocationEvent")
       /\ UNCHANGED <<mounted, authVars, locVars, destVars, isOnline,
                      isTogglingOnline, isLoadingMatches, watchVars, subVars,
                      throttleVars, destinationDoc, callVars, handlers, now>>

TripMatchNext ==
  \/ TripsEvent
  \/ TripsHandled
  \/ CohortHandlerFailed
  \/ LiveLocationEvent

\* the session right after goOnline completed
TripMatchSpec == PeerInit /\ [][TripMatchNext]_vars

\* ------------------------------------------------------------- debounce
\* the clock advances in steps of half the wait, so that calls can be less
\* than wait, exactly wait and more than wait apart
DebounceStepMs == DebounceWaitMs \div 2
\* arguments of the debounced function: the text of the search input
DebounceArgs == {"q1", "q2"}

\* variant: the pending timer is not cleared
debouncedCallKeepsTimer ==
  \E args \in DebounceArgs :
    LET id == Len(debounced.calls) + 1
    IN /\ Len(debounced.calls) < MaxDebounceCalls
       /\ \A t \in debounced.timers : debounced.clock < t.due
       /\ debounced' =
            [debounced EXCEPT
               !.timers = debounced.timers \cup
                            {[id |-> id, due |-> debounced.clock + DebounceWaitMs,
                              args |-> args]},
               !.timeoutId = Some(id),
               !.calls = Append(debounced.calls,
                                [at |-> debounced.clock, args |-> args])]
       /\ UNCHANGED <<pageVars, tripVars, geo>>

\* the function debounce returns is called: if (timeoutId)
\* clearTimeout(timeoutId); timeoutId = setTimeout(..., wait). A timer that
\* is due runs before a call made at that time is handled
debouncedCall ==
  \E args \in DebounceArgs :
    LET id == Len(debounced.calls) + 1
        cleared == {t \in debounced.timers :
                      debounced.timeoutId = Null
                        \/ t.id # debounced.timeoutId[1]}
    IN /\ Len(debounced.calls) < MaxDebounceCalls
       /\ \A t \in debounced.timers : debounced.clock < t.due
       /\ debounced' =
            [debounced EXCEPT
               !.timers = cleared \cup
                            {[id |-> id, due |-> debounced.clock + DebounceWaitMs,
                              args |-> args]},
               !.timeoutId = Some(id),
               !.calls = Append(debounced.calls,
                                [at |-> debounced.clock, args |-> args])]
       /\ UNCHANGED <<pageVars, tripVars, geo>>

\* the timer callback runs once its delay has passed: func(...args);
\* timeoutId = null
timeoutFires ==
  \E t \in debounced.timers :
    /\ debounced.clock >= t.due
    /\ debounced' =
         [debounced EXCEPT
            !.timers = debounced.timers \ {t},
            !.timeoutId = Null,
            !.runs = Append(debounced.runs,
                            [at |-> debounced.clock, args |-> t.args])]
    /\ UNCHANGED <<pageVars, tripVars, geo>>

\* time passes while no timer is due
clockTick ==
  /\ debounced.clock < MaxDebounceTicks * DebounceStepMs
  /\ \A t \in debounced.timers : debounced.clock < t.due
  /\ debounced' =
       [debounced EXCEPT !.clock = debounced.clock + DebounceStepMs]
  /\ UNCHANGED <<pageVars, tripVars, geo>>

DebounceInit == PageInit /\ destinationDoc = Null /\ geo = GeoIdle
                  /\ debounced = DebounceIdle

DebounceNext ==
  \/ debouncedCall
  \/ timeoutFires
  \/ clockTick

DebounceSpec == DebounceInit /\ [][DebounceNext]_vars

\* --------------------------------------------------------------- properties
\* the list is in ascending order of distance
IsAscending(ms) ==
  \A i \in 1..(Len(ms) - 1) : ms[i].distance <= ms[i + 1].distance
\* two lists hold the same entries
SameEntries(a, b) ==
  /\ Len(a) = Len(b)
  /\ {a[i] : i \in DOMAIN a} = {b[i] : i \in DOMAIN b}
UidsOf(ms) == {ms[i].uid : i \in DOMAIN ms}

\* C1: in every state of a matching session, started by goOnline or restored
\* from an existing document, no entry of the match list carries the
\* session's own uid, although every snapshot holds the session's own document
C1_NoSelfMatch ==
  Me \notin UidsOf(matchedUsers)

\* a snapshot holding the own document was processed into a non-empty list
C1_Witness ==
  /\ lastOp = "cohortHandled"
  /\ matchedUsers # <<>>
  /\ \E i \in DOMAIN lastEvent.destinations :
       lastEvent.destinations[i].uid = Me

\* C2: after a snapshot was processed while online, every entry of the match
\* list heads to a destination within 500 m of the local destination, and a
\* traveler of the snapshot whose destination is farther than 500 m away has
\* no entry, however close that traveler is
C2_OnlyMatchingDestinations ==
  (isOnline /\ lastOp = "cohortHandled") =>
    LET local == destinationCoords[1]
        seen == lastEvent.destinations
    IN /\ \A i \in DOMAIN matchedUsers :
            haversineDistance(local, matchedUsers[i].destination.destinationLat)
              <= 500
       /\ \A j \in DOMAIN seen :
            haversineDistance(local, seen[j].destinationLat) > 500
              => seen[j].uid \notin UidsOf(matchedUsers)

\* a snapshot with a traveler 100 m away who heads elsewhere was processed
\* into a non-empty list
C2_Witness ==
  /\ isOnline /\ lastOp = "cohortHandled"
  /\ matchedUsers # <<>>
  /\ myLocation # Null
  /\ \E j \in DOMAIN lastEvent.destinations :
       /\ haversineDistance(destinationCoords[1],
                            lastEvent.destinations[j].destinationLat) > 500
       /\ haversineDistance(myLocation[1],
                            lastEvent.destinations[j].currentLat) <= 100

\* C3: after a snapshot or a position sample was processed while online, the
\* list handed to MatchList and MapView holds the entries of the match list
\* in ascending order of distance
C3_SortedForConsumer ==
  (isOnline /\ lastOp \in {"cohortHandled", "WatchSample", "WatchPublished"}) =>
    /\ IsAscending(sortedMatches)
    /\ SameEntries(sortedMatches, matchedUsers)

\* a position sample put the traveler that was farther away first
C3_Witness ==
  /\ isOnline /\ lastOp \in {"WatchSample", "WatchPublished"}
  /\ Len(sortedMatches) = 2
  /\ sortedMatches[1].uid = Others[2]
  /\ sortedMatches[1].distance < sortedMatches[2].distance

C6_PublishFailureAborts ==
  [][lastOp' = "goOnlineFailed"
     => (/\ alertMsg' = "Failed to go online. Please try again."
         /\ writes' = Tail(writes)
         /\ isOnline' = isOnline
         /\ watches' = watches /\ watchIdRef' = watchIdRef
         /\ listeners' = listeners
         /\ destinationsUnsubscribeRef' = destinationsUnsubscribeRef
         /\ destinationDoc' = destinationDoc
         /\ (lastCall'.from = "OFFLINE" /\ CountCalls = 1
               => Status' = "OFFLINE"))]_vars

\* a goOnline called in status OFFLINE has just failed
C6_Witness ==
  /\ lastOp = "goOnlineFailed"
  /\ lastCall.from = "OFFLINE"
  /\ Status = "OFFLINE"
  /\ watches = {} /\ listeners = {} /\ destinationDoc = Null

\* C7: a go-online attempt without a destination or without a position has
\* no effect (the session stays not online, nothing is sent to the store, no
\* watch and no listener is started, no transition begins), and
\* createDestination is only ever sent when both are known
C7_RejectedWithoutEffect ==
  [][/\ lastOp' = "toggleRejected"
        => (/\ ~isOnline' /\ Status' = Status
            /\ isTogglingOnline' = isTogglingOnline
            /\ writes' = writes
            /\ watches' = watches /\ watchIdRef' = watchIdRef
            /\ listeners' = listeners
            /\ destinationsUnsubscribeRef' = destinationsUnsubscribeRef
            /\ destinationDoc' = destinationDoc)
     /\ CountPending("create")' > CountPending("create")
        => (destinationCoords # Null /\ myLocation # Null)]_vars

\* a go-online attempt has just been rejected
C7_Witness ==
  /\ lastOp = "toggleRejected"
  /\ alertMsg # NoMsg
  /\ Status = "OFFLINE"
  /\ writes = <<>> /\ watches = {} /\ listeners = {}

\* C8: a goOffline called in status GOING_ONLINE leaves, once both calls have
\* settled, a session that is not online, with no listener, no position watch
\* and no document
C8_OfflineWhileGoingOnline ==
  [][(/\ lastOp' = "goOfflineDeleted"
      /\ lastCall'.from = "GOING_ONLINE"
      /\ writes' = <<>>)
     => (/\ ~isOnline'
         /\ listeners' = {}
         /\ watches' = {}
         /\ destinationDoc' = Null)]_vars

\* C9: once sign-out has completed and the goOnline that was in flight has
\* settled, there is no position watch, no listener and no document
C9_LogoutForcesOffline ==
  (signOutPc = "done" /\ lastOp = "goOnlineCreated" /\ CountCalls = 0)
    => (watches = {} /\ listeners = {} /\ destinationDoc = Null)

C11_TeardownIdempotent ==
  [][/\ (lastOp = "goOfflineDeleted" /\ lastOp' = "goOfflineDeleted")
        => UNCHANGED <<isOnline, isTogglingOnline, matchedUsers,
                       destinationName, destinationCoords, watchIdRef,
                       watches, destinationsUnsubscribeRef, listeners,
                       destinationDoc>>
     /\ (/\ lastOp = "goOfflineDeleted" /\ lastCall.from = "ONLINE"
         /\ lastOp' = "signOutDone")
        => UNCHANGED <<isOnline, matchedUsers, destinationName,
                       destinationCoords, watches, listeners,
                       destinationDoc>>]_vars

\* a second goOffline, called while the first was awaiting the store, has
\* just completed on a session that is already torn down
C11_Witness ==
  /\ lastOp = "goOfflineDeleted"
  /\ lastCall.from = "GOING_OFFLINE"
  /\ mounted /\ writes = <<>>
  /\ ~isOnline /\ destinationDoc = Null
  /\ watches = {} /\ listeners = {}

\* C12: after a snapshot was processed while online, the distance of every
\* entry of the match list is the distance between the session's current
\* position and the position in that entry's document
C12_DistanceFromCurrentPosition ==
  (isOnline /\ lastOp = "cohortHandled" /\ myLocation # Null) =>
    \A i \in DOMAIN matchedUsers :
      matchedUsers[i].distance =
        haversineDistance(myLocation[1], matchedUsers[i].destination.currentLat)

\* the list new holds the entries of prev with their distances computed from
\* loc, in ascending order
Recomputed(prev, new, loc) ==
  /\ Len(new) = Len(prev)
  /\ UidsOf(new) = UidsOf(prev)
  /\ IsAscending(new)
  /\ \A i \in DOMAIN new :
       new[i].distance = haversineDistance(loc, new[i].destination.currentLat)

\* C13: when the callback of a position watch has handled a sample while
\* online, be the sample published or not and be the watch the one of
\* goOnline or the one of a restored session, the match list holds the same
\* travelers with their distances computed from the sample, in ascending
\* order
C13_RecomputedOnEverySample ==
  [][/\ (lastOp' = "WatchSample" /\ isOnline /\ writes' = writes)
        => Recomputed(matchedUsers, matchedUsers', myLocation'[1])
     /\ (lastOp' = "WatchPublished" /\ isOnline)
        => Recomputed(matchedUsers, matchedUsers', Head(writes).call.loc)]_vars

\* C14: while online, a position sample is sent to the store only if it lies
\* more than 10 m from the position the store holds for the session (the
\* last one published, by goOnline or by a sample) or more than 2000 ms
\* have passed since the last publish, which is no earlier than the start
\* of the session
C14_ThrottledPublish ==
  [][(/\ isOnline /\ lastOp' = "WatchSample"
      /\ CountPending("update")' > CountPending("update"))
     => (\/ destinationDoc = Null
         \/ haversineDistance(destinationDoc[1].currentLat, myLocation'[1])
              > PublishMinMeters
         \/ now - StartMs > PublishMinMs)]_vars

\* C15: when a snapshot that arrived at a listener while the handler of an
\* earlier snapshot of the same listener was awaiting its profiles has been
\* processed (it matched nobody, so its callback ran to its end at once),
\* the earlier handler, completing next, leaves the match list as the later
\* snapshot set it
C15_ArrivalOrder ==
  [][(/\ lastOp = "cohortHandled"
      /\ Len(MatchingDestinations(lastEvent.l[1], lastEvent.destinations)) = 0
      /\ lastOp' = "cohortHandled"
      /\ \E h \in handlers : h \notin handlers' /\ h.l = lastEvent.l[1])
     => matchedUsers' = matchedUsers]_vars

\* C16: the trips collection never holds more than one active trip of the
\* same traveler, whatever go-online and go-offline calls the traveler's
\* tabs have made
C16_OneActiveRecord ==
  Cardinality(ActiveTrips(Me)) <= 1

\* C17: after a snapshot was processed while online by a listener that knows
\* a local position, every other traveler of the snapshot who has a profile
\* and whose destination is within 500 m of the local destination has an
\* entry in the match list, however far that traveler is from the local
\* position
C17_RadiusCosmetic ==
  (isOnline /\ lastOp = "cohortHandled" /\ lastEvent.l[1].loc # Null) =>
    \A j \in DOMAIN lastEvent.destinations :
      LET d == lastEvent.destinations[j]
      IN (/\ d.uid # Me /\ d.uid \in ProfileUids
          /\ destinationsMatch(destinationCoords[1], d.destinationLat))
         => d.uid \in UidsOf(matchedUsers)

C19_PositionErrorOnlyRecorded ==
  [][/\ (lastOp' = "WatchError" /\ isOnline)
        => /\ locationError' \in
                {getGeolocationErrorMessage(code) : code \in ErrorCodes}
           /\ UNCHANGED <<isOnline, myLocation, matchedUsers, watchIdRef,
                          watches, destinationsUnsubscribeRef, listeners,
                          destinationDoc, lastLocationRef, lastUpdateTimeRef,
                          writes, handlers>>
     /\ (lastOp' = "cohortHandled" /\ isOnline /\ locationError # NoMsg)
        => matchedUsers' =
             BuildMatches(MatchingDestinations(lastEvent'.l[1],
                                               lastEvent'.destinations),
                          lastEvent'.l[1].loc)]_vars

\* in a session that went online with a known position, a snapshot has been
\* processed into a non-empty list after the position source timed out
C19_Witness ==
  /\ lastOp = "cohortHandled" /\ isOnline
  /\ locationError = getGeolocationErrorMessage(3)
  /\ lastEvent.l[1].kind = "online"
  /\ watches # {} /\ listeners # {}
  /\ matchedUsers # <<>>

\* C20: when the cohort stream drops while online the match list stays as it
\* was, and the session eventually has an open listener again
C20_StreamDropRecovers ==
  /\ [][lastOp' = "StreamDropped" => matchedUsers' = matchedUsers]_vars
  /\ (isOnline /\ lastOp = "StreamDropped") ~> (listeners # {})

\* C21: in every state of a matching session every entry of the match list
\* belongs to a traveler whose document carries the gender of the local
\* user's profile; a traveler of the other gender has no entry, even when
\* heading to a matching destination from 100 m away
C21_SameGenderOnly ==
  \A i \in DOMAIN matchedUsers :
    matchedUsers[i].destination.gender = userProfile[1].gender

\* a snapshot has been processed into a non-empty list while the store held
\* a traveler of the other gender, 100 m away and heading to a destination
\* that matches the local one
C21_Witness ==
  /\ lastOp = "cohortHandled" /\ isOnline
  /\ matchedUsers # <<>>
  /\ myLocation # Null
  /\ \E others \in CohortStores :
       /\ Snapshot(lastEvent.l[1], others) = lastEvent.destinations
       /\ \E j \in DOMAIN others :
            /\ others[j].gender # userProfile[1].gender
            /\ destinationsMatch(destinationCoords[1], others[j].destinationLat)
            /\ haversineDistance(myLocation[1], others[j].currentLat) <= 100

\* C22: when the peer is offline and the session, online, has just processed
\* a snapshot delivered since (it holds no record of the peer and matched
\* nobody, so its callback ran to its end at once), the peer has no entry in
\* the match list and gets none as long as the peer stays offline
C22_GoneAfterOffline ==
  [][(/\ isOnline /\ lastOp = "cohortHandled"
      /\ ActiveTrips(Peer) = {} /\ ActiveTrips(Peer)' = {}
      /\ \A j \in DOMAIN lastEvent.destinations :
           lastEvent.destinations[j].uid # Peer
      /\ Len(MatchingDestinations(lastEvent.l[1], lastEvent.destinations)) = 0)
     => (/\ Peer \notin UidsOf(matchedUsers)
         /\ Peer \notin UidsOf(matchedUsers'))]_vars

\* C23: when a snapshot in which no other traveler heads to a destination
\* within 500 m of the local destination has been processed while online,
\* the match list is empty and the loading flag is cleared
C23_NoMatchClears ==
  [][(/\ lastOp' = "cohortHandled" /\ isOnline
      /\ \A j \in DOMAIN lastEvent'.destinations :
           LET d == lastEvent'.destinations[j]
           IN d.uid # Me =>
                haversineDistance(destinationCoords[1], d.destinationLat) > 500)
     => (matchedUsers' = <<>> /\ ~isLoadingMatches')]_vars

\* a snapshot holding a traveler who is 100 m away and heads elsewhere has
\* been processed: the list is empty and the loading flag cleared
C23_Witness ==
  /\ lastOp = "cohortHandled" /\ isOnline
  /\ \E j \in DOMAIN lastEvent.destinations :
       lastEvent.destinations[j].uid # Me
  /\ \A j \in DOMAIN lastEvent.destinations :
       lastEvent.destinations[j].uid # Me =>
         haversineDistance(destinationCoords[1],
                           lastEvent.destinations[j].destinationLat) > 500
  /\ matchedUsers = <<>> /\ ~isLoadingMatches

\* C24: after a snapshot was processed while online, the list handed to
\* MatchList and MapView is in ascending order of distance, and of two
\* entries with the same distance the one with the smaller traveler id comes
\* first, in whatever order the store delivered the documents
C24_DeterministicOrder ==
  (isOnline /\ lastOp = "cohortHandled") =>
    LET rank(uid) == CHOOSE k \in DOMAIN Others : Others[k] = uid
    IN \A i \in 1..(Len(sortedMatches) - 1) :
         \/ sortedMatches[i].distance < sortedMatches[i + 1].distance
         \/ /\ sortedMatches[i].distance = sortedMatches[i + 1].distance
            /\ rank(sortedMatches[i].uid) < rank(sortedMatches[i + 1].uid)

\* C25: in every state of a matching session the isNear flag of every entry
\* of the match list equals (distance <= 2000) for the distance the entry
\* holds, and the zone of every marker MapView draws is the zone of the
\* distance held by the entry of that traveler
C25_ProximityFromDistance ==
  /\ \A i \in DOMAIN matchedUsers :
       matchedUsers[i].isNear = (matchedUsers[i].distance <= 2000)
  /\ Len(MapViewMarkers) = Len(matchedUsers)
  /\ \A k \in DOMAIN MapViewMarkers :
       \E i \in DOMAIN matchedUsers :
         /\ matchedUsers[i].uid = MapViewMarkers[k].uid
         /\ MapViewMarkers[k].zone = getDistanceZone(matchedUsers[i].distance)

\* a position sample has moved the local position so that an entry that was
\* near is now farther than 2000 m away: its flag is cleared and its marker
\* is in the farthest zone
C25_Witness ==
  /\ isOnline /\ lastOp \in {"WatchSample", "WatchPublished"}
  /\ \E i \in DOMAIN matchedUsers :
       /\ matchedUsers[i].distance > 2000
       /\ ~matchedUsers[i].isNear
       /\ \E k \in DOMAIN MapViewMarkers :
            /\ MapViewMarkers[k].uid = matchedUsers[i].uid
            /\ MapViewMarkers[k].zone = "very-far"

\* C26: getDistanceZone returns exactly one of the three zones for every
\* distance: very-close exactly for distances up to 500, far exactly for
\* distances above 500 and up to 1000, very-far exactly for distances above
\* 1000
C26_ZonesPartition ==
  (geo.fn = "getDistanceZone" /\ geo.result # Null) =>
    LET distance == geo.args[1]
        zone == geo.result[1]
    IN /\ zone \in {"very-close", "far", "very-far"}
       /\ zone = "very-close" <=> distance <= 500
       /\ zone = "far" <=> (500 < distance /\ distance <= 1000)
       /\ zone = "very-far" <=> distance > 1000

\* getDistanceZone has returned far for a distance of exactly 1000
C26_Witness ==
  /\ geo.fn = "getDistanceZone"
  /\ geo.args = <<1000>>
  /\ geo.result = Some("far")

\* C27: destinationsMatch returns true exactly when the distance between the
\* two destinations is at most 500 m: a distance of exactly 500 m matches, a
\* distance of 501 m does not
C27_MatchIffWithin500 ==
  (geo.fn = "destinationsMatch" /\ geo.result # Null) =>
    geo.result[1] = (haversineDistance(geo.args[1], geo.args[2]) <= 500)

\* destinationsMatch has returned true for two destinations exactly 500 m
\* apart
C27_Witness ==
  /\ geo.fn = "destinationsMatch"
  /\ haversineDistance(geo.args[1], geo.args[2]) = 500
  /\ geo.result = Some(TRUE)

\* C28: formatDistance renders a distance below 1000 m as a whole number of
\* meters that is below 1000, and a distance of 1000 m or more in kilometers
\* with one digit after the point
C28_FormatDistance ==
  (geo.fn = "formatDistance" /\ geo.result # Null) =>
    LET tenths == geo.args[1]
        text == geo.result[1]
    IN /\ tenths < 10000 =>
            (text.unit = "m" /\ text.frac = <<>> /\ text.whole < 1000)
       /\ tenths >= 10000 =>
            (text.unit = "km" /\ Len(text.frac) = 1)

\* C29: haversineDistance returns the same distance for a pair of
\* coordinates and for the pair swapped
C29_Symmetric ==
  (geo.fn = "haversineDistance" /\ geo.result # Null) =>
    geo.result[1] = haversineDistanceOf(geo.args[2], geo.args[1])

\* haversineDistance has returned for two coordinates that differ in
\* latitude and in longitude
C29_Witness ==
  /\ geo.fn = "haversineDistance" /\ geo.result # Null
  /\ geo.args[1].lat # geo.args[2].lat
  /\ geo.args[1].lng # geo.args[2].lng
  /\ geo.result[1] > 0
  /\ geo.result[1] = haversineDistanceOf(geo.args[2], geo.args[1])

\* C30: haversineDistance returns 0 for a coordinate and itself
C30_ZeroToItself ==
  (geo.fn = "haversineDistance" /\ geo.result # Null
     /\ geo.args[1] = geo.args[2]) =>
    geo.result[1] = 0

\* haversineDistance has returned 0 for a coordinate off the equator and off
\* the prime meridian, and itself
C30_Witness ==
  /\ geo.fn = "haversineDistance"
  /\ geo.args[1] = geo.args[2]
  /\ geo.args[1].lat # 0 /\ geo.args[1].lng # 0
  /\ geo.result = Some(0)

\* C31: whenever the mounted session is OFFLINE its match list is empty and
\* it owns no open cohort listener, also when a cohort handler was still
\* awaiting its profile lookup while goOffline closed the subscription
C31_OfflineIsQuiet ==
  (mounted /\ Status = "OFFLINE") =>
    (matchedUsers = <<>> /\ listeners = {})

\* C32: whenever the mounted session is ONLINE its position watch is
\* registered (the watch id is not null) and its cohort listener is open,
\* also after a goOffline whose deleteDestination failed
C32_OnlineIsLive ==
  (mounted /\ Status = "ONLINE") =>
    (watchIdRef # Null /\ watches # {} /\ listeners # {})

\* C33: when no tab of the user is online or on its way (every goOnline that
\* was started has aborted or was undone by goOffline), the store holds no
\* active trip of the user, so no other session lists the user
C33_AbortLeavesNoPresence ==
  (\A t \in Tabs : tripCalls[t].pc = "idle") => ActiveTrips(Me) = {}

\* C34: the throttle's reference point (lastLocationRef, lastUpdateTimeRef)
\* is moved only by a sample that was written to the store: whenever it
\* changes, a publish has just settled and the stored record holds the
\* reference position
C34_ReferenceIsLastWritten ==
  [][(lastLocationRef' # lastLocationRef
        \/ lastUpdateTimeRef' # lastUpdateTimeRef)
       => /\ lastOp' = "WatchPublished"
          /\ destinationDoc' # Null
          /\ destinationDoc'[1].currentLat = lastLocationRef'[1]]_vars

\* C35: at most one goOnline or goOffline call of the session is in flight
\* (awaiting its store write) at any time, whether the calls come from the
\* online toggle or from Sign Out
C35_OneTransition == CountCalls <= 1

\* C36: whenever the mounted session is ONLINE and no transition is in
\* flight, the online toggle is enabled, so goOffline can be invoked; this
\* includes a session restored as ONLINE that has no position fix yet
C36_ToggleEnabledOnline ==
  (mounted /\ Status = "ONLINE" /\ ~isTogglingOnline) => ~ToggleDisabled

\* C37: a session restored as ONLINE does what a session that went online
\* through goOnline does with the same samples and snapshots: a sample that
\* passes the throttle is sent to the store, and a snapshot processed by the
\* restored listener yields the list that the listener goOnline registers
\* for the same user, destination and position yields
C37_RestoredLikeGoOnline ==
  [][/\ (lastOp' = "WatchSample" /\ ShouldPublish(myLocation'[1]))
          => Len(writes') = Len(writes) + 1
     /\ (/\ lastOp' = "cohortHandled"
         /\ lastEvent'.l[1].kind = "restore"
         /\ myLocation # Null)
          => LET l == lastEvent'.l[1]
                 o == OnlineListener([user |-> Me, gender |-> l.gender,
                                      dest |-> l.dest, loc |-> myLocation[1]])
             IN matchedUsers' =
                  BuildMatches(MatchingDestinations(o, lastEvent'.destinations),
                               o.loc)]_vars

\* C38: the match list never holds two entries with the same traveler id,
\* whatever records a snapshot delivers, a snapshot with two active trips of
\* one traveler included
C38_UniqueTravelers ==
  \A i, j \in DOMAIN matchedUsers :
    matchedUsers[i].uid = matchedUsers[j].uid => i = j

\* C39: func runs only for the last call of a burst (a call that no other
\* call follows within wait ms), wait ms after that call and with its
\* arguments, and once the wait after the last call of a burst has passed
\* func has run exactly once for it
C39_RunsOncePerBurst ==
  LET calls == debounced.calls
      runs == debounced.runs
      IsLast(k) == k = Len(calls)
                     \/ calls[k + 1].at >= calls[k].at + DebounceWaitMs
      RunsOf(k) == {i \in DOMAIN runs :
                      /\ runs[i].at = calls[k].at + DebounceWaitMs
                      /\ runs[i].args = calls[k].args}
  IN /\ \A i \in DOMAIN runs :
          \E k \in DOMAIN calls : IsLast(k) /\ i \in RunsOf(k)
     /\ \A i, j \in DOMAIN runs : runs[i].at = runs[j].at => i = j
     /\ \A k \in DOMAIN calls :
          (IsLast(k) /\ debounced.clock > calls[k].at + DebounceWaitMs)
            => Cardinality(RunsOf(k)) = 1

\* a burst of two calls with different arguments, less than wait apart, has
\* ended and func has run once, with the arguments of the second call
C39_Witness ==
  /\ Len(debounced.calls) = 2
  /\ debounced.calls[2].at > debounced.calls[1].at
  /\ debounced.calls[2].at < debounced.calls[1].at + DebounceWaitMs
  /\ debounced.calls[1].args # debounced.calls[2].args
  /\ debounced.runs = <<[at |-> debounced.calls[2].at + DebounceWaitMs,
                         args |-> debounced.calls[2].args]>>
====
